---------------------------- MODULE Spec2Model ----------------------------
(***************************************************************************)
(* Multi-QR-code file transfer: chunking, framing, grid layout, reassembly *)
(* and envelope handling of generate_qr_array.py, read_qr_array.py and     *)
(* qr_code_file_transfer.py.                                               *)
(*                                                                         *)
(* A Python str is a sequence of characters; a character is a one-letter   *)
(* TLA+ string, except WideChar, which stands for one non-ASCII code point *)
(* (three bytes in UTF-8).  A bytes object is a sequence of 0..255.        *)
(* Python's None is the record None below, any other value v is Some(v).   *)
(***************************************************************************)
EXTENDS Integers, Sequences, FiniteSets, TLC

None == [some |-> FALSE, val |-> <<>>]
Some(v) == [some |-> TRUE, val |-> v]

Min2(a, b) == IF a < b THEN a ELSE b
Max2(a, b) == IF a > b THEN a ELSE b

SetMax(S) == CHOOSE x \in S : \A y \in S : y <= x
SetMin(S) == CHOOSE x \in S : \A y \in S : x <= y

\* ceil(a / b) for a >= 0, b > 0 (math.ceil of a true division)
CeilDiv(a, b) == (a + b - 1) \div b

(***************************************************************************)
(* Characters                                                              *)
(***************************************************************************)
DigitSeq == <<"0", "1", "2", "3", "4", "5", "6", "7", "8", "9">>
Digits == {DigitSeq[k] : k \in 1..10}
DigitVal(c) == CHOOSE d \in 0..9 : DigitSeq[d + 1] = c
WideChar == "U+4E2D"

\* Python slice s[a:b] with 0 <= a, clamped at len(s)
Slice(s, a, b) == SubSeq(s, a + 1, Min2(b, Len(s)))
\* Python slice s[a:]
SliceFrom(s, a) == SubSeq(s, a + 1, Len(s))
\* str.startswith
StartsWith(s, p) == Len(s) >= Len(p) /\ SubSeq(s, 1, Len(p)) = p
\* str.find(c) for a single character: 0-based position of the first c, or -1
Find(s, c) ==
    LET hits == {p \in 1..Len(s) : s[p] = c}
    IN  IF hits = {} THEN -1 ELSE SetMin(hits) - 1

\* "".join(f[k] for k in seq[lo..hi]), by halving (no deep recursion)
RECURSIVE JoinRange(_, _, _, _)
JoinRange(f, seq, lo, hi) ==
    IF lo > hi THEN <<>>
    ELSE IF lo = hi THEN f[seq[lo]]
    ELSE LET mid == (lo + hi) \div 2
         IN  JoinRange(f, seq, lo, mid) \o JoinRange(f, seq, mid + 1, hi)

\* sorted(S) for a finite set of integers
Sorted(S) ==
    IF S = {} THEN <<>>
    ELSE LET lo == SetMin(S)
             hi == SetMax(S)
         IN  SelectSeq([k \in 1..(hi - lo + 1) |-> lo + k - 1], LAMBDA x : x \in S)

\* int(s) for a string of ASCII digits
RECURSIVE IntOfDigits(_)
IntOfDigits(ds) ==
    IF ds = <<>> THEN 0
    ELSE 10 * IntOfDigits(SubSeq(ds, 1, Len(ds) - 1)) + DigitVal(ds[Len(ds)])

AllDigits(s) == \A k \in 1..Len(s) : s[k] \in Digits

\* str(n) for n >= 0
RECURSIVE DecDigits(_)
DecDigits(n) ==
    IF n < 10 THEN <<DigitSeq[n + 1]>>
    ELSE DecDigits(n \div 10) \o <<DigitSeq[(n % 10) + 1]>>

(***************************************************************************)
(* generate_qr_array.py: program constants                                 *)
(***************************************************************************)
QR_CODE_SPACING == 20
QR_CODE_MARGIN == 40
\* qrcode.QRCode(version=1, ..., box_size=10, border=6)
box_size == 10
border == 6

(***************************************************************************)
(* generate_qr_array.py: split_text                                        *)
(***************************************************************************)
\* range(0, n, step) as the sequence of its values
RangeStep(n, step) ==
    LET cnt == Cardinality({i \in 0..(n - 1) : i % step = 0})
    IN  [k \in 1..cnt |-> (k - 1) * step]

\* a split that keeps only the full chunks: range(0, len(text) - chunk_size + 1, chunk_size)
split_text_full_only(text, chunk_size) ==
    LET starts == RangeStep(Max2(0, Len(text) - chunk_size + 1), chunk_size)
    IN  [k \in 1..Len(starts) |-> Slice(text, starts[k], starts[k] + chunk_size)]

split_text(text, chunk_size) ==
    LET starts == RangeStep(Len(text), chunk_size)
    IN  [k \in 1..Len(starts) |-> Slice(text, starts[k], starts[k] + chunk_size)]

(***************************************************************************)
(* generate_qr_array.py: generate_qr_code, the tag                         *)
(***************************************************************************)
\* f"{index:03d}": decimal, zero padded to a MINIMUM width of 3
Format03d(index) ==
    LET ds == DecDigits(index)
    IN  IF Len(ds) >= 3 THEN ds ELSE [k \in 1..(3 - Len(ds)) |-> "0"] \o ds

\* index_str = f"IDX:{index:03d}:"
index_str(index) == <<"I", "D", "X", ":">> \o Format03d(index) \o <<":">>

\* text_with_index = f"{index_str}{text}"
text_with_index(text, index) == index_str(index) \o text

(***************************************************************************)
(* read_qr_array.py: combine_qr_code_data                                  *)
(***************************************************************************)
NoMatch == [matched |-> FALSE, index |-> 0, text |-> <<>>]
Match(i, t) == [matched |-> TRUE, index |-> i, text |-> t]

\* the pattern IDX:(\d{3}): matches data at 1-based position p
NewFormatAt(data, p) ==
    /\ p + 7 <= Len(data)
    /\ SubSeq(data, p, p + 3) = <<"I", "D", "X", ":">>
    /\ AllDigits(SubSeq(data, p + 4, p + 6))
    /\ data[p + 7] = ":"

\* a search that reports the last match of the pattern instead of the first
SearchNewFormatLast(data) ==
    LET hits == {p \in 1..Len(data) : NewFormatAt(data, p)}
    IN  IF hits = {} THEN NoMatch
        ELSE LET p == SetMax(hits)
             IN  Match(IntOfDigits(SubSeq(data, p + 4, p + 6)), SliceFrom(data, p + 7))

\* the same search without re.DOTALL: group 2 stops before the first line break
SearchNewFormatNoDotAll(data) ==
    LET hits == {p \in 1..Len(data) : NewFormatAt(data, p)}
    IN  IF hits = {} THEN NoMatch
        ELSE LET p == SetMin(hits)
                 rest == SliceFrom(data, p + 7)
                 nl == Find(rest, "\n")
             IN  Match(IntOfDigits(SubSeq(data, p + 4, p + 6)),
                       IF nl = -1 THEN rest ELSE Slice(rest, 0, nl))

\* re.search(r'IDX:(\d{3}):(.*)', data, re.DOTALL): the leftmost match anywhere
\* in data; with DOTALL group 2 runs to the end of the string, line breaks
\* included
SearchNewFormat(data) ==
    LET hits == {p \in 1..Len(data) : NewFormatAt(data, p)}
    IN  IF hits = {} THEN NoMatch
        ELSE LET p == SetMin(hits)
             IN  Match(IntOfDigits(SubSeq(data, p + 4, p + 6)), SliceFrom(data, p + 7))

\* re.search(r'^(\d+):(.*)', data, re.DOTALL): the leading run of digits, which
\* must be non-empty and directly followed by ':'
SearchOldFormat(data) ==
    LET nondigit == {p \in 1..Len(data) : data[p] \notin Digits}
        k == IF nondigit = {} THEN Len(data) ELSE SetMin(nondigit) - 1
    IN  IF k >= 1 /\ k < Len(data) /\ data[k + 1] = ":"
        THEN Match(IntOfDigits(SubSeq(data, 1, k)), SliceFrom(data, k + 1))
        ELSE NoMatch

\* one pass of the for loop body: new format first, then the old one
ParseFrame(data) ==
    LET m == SearchNewFormat(data)
    IN  IF m.matched THEN m ELSE SearchOldFormat(data)

\* the dict built by "indexed_data[index] = text" over the matches, in list
\* order: a later assignment to the same key overwrites the earlier one
DictOf(entries) ==
    LET at(i) == {k \in 1..Len(entries) : entries[k].matched /\ entries[k].index = i}
        keys == {entries[k].index : k \in {j \in 1..Len(entries) : entries[j].matched}}
    IN  [i \in keys |-> entries[SetMax(at(i))].text]

\* int(s) as far as the model's characters go: an optional sign and digits
PyIntOk(s) ==
    \/ Len(s) >= 1 /\ AllDigits(s)
    \/ Len(s) >= 2 /\ s[1] \in {"-", "+"} /\ AllDigits(SliceFrom(s, 1))
PyInt(s) ==
    IF s[1] = "-" THEN 0 - IntOfDigits(SliceFrom(s, 1))
    ELSE IF s[1] = "+" THEN IntOfDigits(SliceFrom(s, 1))
    ELSE IntOfDigits(s)

\* data.split(':', 2): at most three parts
Split2(data) ==
    LET c1 == Find(data, ":")
    IN  IF c1 = -1 THEN <<data>>
        ELSE LET rest == SliceFrom(data, c1 + 1)
                 c2 == Find(rest, ":")
             IN  IF c2 = -1 THEN <<Slice(data, 0, c1), rest>>
                 ELSE <<Slice(data, 0, c1), Slice(rest, 0, c2), SliceFrom(rest, c2 + 1)>>

\* the manual recovery of one string (lines 211-220)
ManualFrame(data) ==
    LET parts == Split2(data)
    IN  IF Len(parts) >= 3 /\ parts[1] = <<"I", "D", "X">> /\ PyIntOk(parts[2])
        THEN Match(PyInt(parts[2]), parts[3])
        ELSE NoMatch

\* a join that takes the texts from the lowest index up to the first gap
JoinUpToGap(indexed_data) ==
    LET keys == DOMAIN indexed_data
        lo == SetMin(keys)
        run == {i \in keys : \A j \in lo..i : j \in keys}
    IN  JoinRange(indexed_data, Sorted(run), 1, Cardinality(run))

\* lines 229-234: sort the keys, join the texts
JoinSorted(indexed_data) ==
    LET sorted_indices == Sorted(DOMAIN indexed_data)
    IN  JoinRange(indexed_data, sorted_indices, 1, Len(sorted_indices))

combine_qr_code_data(qr_data_list) ==
    LET n == Len(qr_data_list)
        parsed == [k \in 1..n |-> ParseFrame(qr_data_list[k])]
        indexed_data == DictOf(parsed)
        recovered == [k \in 1..n |-> ManualFrame(qr_data_list[k])]
        manual_data == DictOf(recovered)
    IN  IF n = 1 /\ ~parsed[1].matched
        THEN Some(qr_data_list[1])                          \* lines 197-199
        ELSE IF DOMAIN indexed_data # {}
        THEN Some(JoinSorted(indexed_data))
        ELSE IF /\ \A k \in 1..n : StartsWith(qr_data_list[k], <<"I", "D", "X", ":">>)
                /\ DOMAIN manual_data # {}
        THEN Some(JoinSorted(manual_data))                  \* manual recovery
        ELSE IF n = 1 THEN Some(qr_data_list[1]) ELSE None  \* lines 224-227

(***************************************************************************)
(* base64 (the standard library, as qr_code_file_transfer.py calls it)     *)
(***************************************************************************)
B64Alphabet ==
    <<"A", "B", "C", "D", "E", "F", "G", "H", "I", "J", "K", "L", "M", "N", "O", "P",
      "Q", "R", "S", "T", "U", "V", "W", "X", "Y", "Z", "a", "b", "c", "d", "e", "f",
      "g", "h", "i", "j", "k", "l", "m", "n", "o", "p", "q", "r", "s", "t", "u", "v",
      "w", "x", "y", "z", "0", "1", "2", "3", "4", "5", "6", "7", "8", "9", "+", "/">>
B64Chars == {B64Alphabet[k] : k \in 1..64}
B64Val(c) == (CHOOSE k \in 1..64 : B64Alphabet[k] = c) - 1
B64Chr(v) == B64Alphabet[v + 1]

\* one group of 1..3 bytes to 4 characters, '=' padded
B64Group(g) ==
    LET b1 == g[1]
        b2 == IF Len(g) >= 2 THEN g[2] ELSE 0
        b3 == IF Len(g) >= 3 THEN g[3] ELSE 0
        c1 == B64Chr(b1 \div 4)
        c2 == B64Chr((b1 % 4) * 16 + b2 \div 16)
        c3 == IF Len(g) >= 2 THEN B64Chr((b2 % 16) * 4 + b3 \div 64) ELSE "="
        c4 == IF Len(g) >= 3 THEN B64Chr(b3 % 64) ELSE "="
    IN  <<c1, c2, c3, c4>>

\* base64.b64encode(file_data).decode('utf-8')
b64encode(bytes) ==
    LET groups == split_text(bytes, 3)
        ids == [k \in 1..Len(groups) |-> k]
        enc == [k \in 1..Len(groups) |-> B64Group(groups[k])]
    IN  JoinRange(enc, ids, 1, Len(ids))

\* binascii.a2b_base64 without strict mode, one character at a time.
\* st = [quad_pos, leftchar, pads, out, done]
B64Step(st, c) ==
    IF st.done THEN st
    ELSE IF c = "="
    THEN IF st.quad_pos >= 2 /\ st.quad_pos + st.pads + 1 >= 4
         THEN [st EXCEPT !.done = TRUE, !.pads = st.pads + 1]
         ELSE IF st.quad_pos >= 2 THEN [st EXCEPT !.pads = st.pads + 1] ELSE st
    ELSE IF c \notin B64Chars THEN st        \* not of the alphabet: skipped
    ELSE LET v == B64Val(c)
         IN  CASE st.quad_pos = 0 ->
                    [st EXCEPT !.quad_pos = 1, !.leftchar = v, !.pads = 0]
               [] st.quad_pos = 1 ->
                    [st EXCEPT !.quad_pos = 2, !.leftchar = v % 16, !.pads = 0,
                               !.out = Append(st.out, st.leftchar * 4 + v \div 16)]
               [] st.quad_pos = 2 ->
                    [st EXCEPT !.quad_pos = 3, !.leftchar = v % 4, !.pads = 0,
                               !.out = Append(st.out, st.leftchar * 16 + v \div 4)]
               [] OTHER ->
                    [st EXCEPT !.quad_pos = 0, !.leftchar = 0, !.pads = 0,
                               !.out = Append(st.out, st.leftchar * 64 + v)]

RECURSIVE B64Run(_, _, _)
B64Run(st, s, k) == IF k > Len(s) THEN st ELSE B64Run(B64Step(st, s[k]), s, k + 1)

\* base64.b64decode(s) for a str s: Some(bytes), or None when it raises
\* (a non-ASCII character, or an incomplete last quantum)
b64decode(s) ==
    IF \E k \in 1..Len(s) : s[k] = WideChar THEN None
    ELSE LET st == B64Run([quad_pos |-> 0, leftchar |-> 0, pads |-> 0,
                           out |-> <<>>, done |-> FALSE], s, 1)
         IN  IF st.done \/ st.quad_pos = 0 THEN Some(st.out) ELSE None

(***************************************************************************)
(* qr_code_file_transfer.py: the envelope                                  *)
(***************************************************************************)
QRTEXT == <<"Q", "R", "T", "E", "X", "T", ":">>
QRFILE == <<"Q", "R", "F", "I", "L", "E", ":">>

\* encode_file_to_qr_array, lines 22-37: header + content.  A file's content
\* is a str (the file decodes as UTF-8) or bytes (it does not).
full_data(file_name, content) ==
    IF content.is_text
    THEN QRTEXT \o file_name \o <<":">> \o content.text
    ELSE QRFILE \o file_name \o <<":">> \o b64encode(content.bytes)

\* re.match(r'^\d+:(QRTEXT:|QRFILE:)', combined_text)
HasIndexPrefix(t) ==
    LET nondigit == {p \in 1..Len(t) : t[p] \notin Digits}
        k == IF nondigit = {} THEN Len(t) ELSE SetMin(nondigit) - 1
    IN  /\ k >= 1
        /\ \/ StartsWith(SliceFrom(t, k), <<":">> \o QRTEXT)
           \/ StartsWith(SliceFrom(t, k), <<":">> \o QRFILE)

\* a removal that cuts at the last ':' of the string, not at the first
StripIndexPrefixLastColon(t) ==
    LET colons == {p \in 1..Len(t) : t[p] = ":"}
    IN  IF HasIndexPrefix(t) /\ colons # {} THEN SliceFrom(t, SetMax(colons)) ELSE t

\* lines 72-78
StripIndexPrefix(t) ==
    IF HasIndexPrefix(t) /\ Find(t, ":") # -1 THEN SliceFrom(t, Find(t, ":") + 1) ELSE t

\* lines 64-111: from the reassembled text to what is to be written, or the
\* reason of the early "return None"
Unwrap(combined_text) ==
    IF ~combined_text.some \/ combined_text.val = <<>>
    THEN [ok |-> FALSE, why |-> "no data", is_text |-> FALSE,
          file_name |-> <<>>, file_content |-> <<>>]
    ELSE LET t == StripIndexPrefix(combined_text.val)
             known == StartsWith(t, QRTEXT) \/ StartsWith(t, QRFILE)
             data == SliceFrom(t, 7)
             colon_pos == Find(data, ":")
         IN  IF ~known
             THEN [ok |-> FALSE, why |-> "unsupported", is_text |-> FALSE,
                   file_name |-> <<>>, file_content |-> <<>>]
             ELSE IF colon_pos = -1
             THEN [ok |-> FALSE, why |-> "no separator", is_text |-> StartsWith(t, QRTEXT),
                   file_name |-> <<>>, file_content |-> <<>>]
             ELSE [ok |-> TRUE, why |-> "", is_text |-> StartsWith(t, QRTEXT),
                   file_name |-> Slice(data, 0, colon_pos),
                   file_content |-> SliceFrom(data, colon_pos + 1)]

(***************************************************************************)
(* Bounds of the model                                                     *)
(***************************************************************************)
MaxTextLen == 2      \* longest enumerated payload text
MaxChunkSize == 3    \* largest chunk_size tried
MaxGridArg == 2      \* largest rows / cols argument tried
MaxPermLen == 3      \* scans of up to this many symbols come in every order
MaxBinLen == 2       \* longest enumerated binary payload
CodecCapacity == 14  \* what one symbol holds, in units of RenderCost
SmallCapacity == 10  \* what a symbol of the smallest version holds

(***************************************************************************)
(* The external QR codec                                                   *)
(***************************************************************************)
\* what a tagged text costs in a symbol: a byte per ASCII character, three
\* per WideChar
RenderCost(s) == Len(s) + 2 * Cardinality({k \in 1..Len(s) : s[k] = WideChar})

\* qr.make(fit=True) raises DataOverflowError (lines 37-46)
RenderFails(tagged) == RenderCost(tagged) > CodecCapacity

\* qr.make(fit=True): the smallest version that holds the data
QrVersion(tagged) == IF RenderCost(tagged) <= SmallCapacity THEN 1 ELSE 2

\* qr.make_image: a square of 17 + 4 * version modules and the border on
\* either side, box_size pixels per module
ImageSize(tagged) ==
    LET side == (17 + 4 * QrVersion(tagged) + 2 * border) * box_size
    IN  [width |-> side, height |-> side]

(***************************************************************************)
(* generate_qr_array.py: paths and the grid                                *)
(***************************************************************************)
DEFAULT_TEMP_DIR == <<"qrcodes">>
OutputFile == <<"qr_array.png">>
OutputDir == <<"out">>

\* what a file holds: the tagged text of a chunk image, the pasted symbols of
\* a composite, the str written in text mode or the bytes written in binary mode
NoGrid == [rows |-> 0, cols |-> 0]
QrImage(tagged) ==
    [kind |-> "qr", data |-> tagged, bytes |-> <<>>, cells |-> <<>>, grid |-> NoGrid]
ArrayImage(cells, grid) ==
    [kind |-> "array", data |-> <<>>, bytes |-> <<>>, cells |-> cells, grid |-> grid]
TextFile(t) ==
    [kind |-> "text", data |-> t, bytes |-> <<>>, cells |-> <<>>, grid |-> NoGrid]
BytesFile(b) ==
    [kind |-> "bytes", data |-> <<>>, bytes |-> b, cells |-> <<>>, grid |-> NoGrid]
\* a file that was opened for writing and not written to the end
PartialFile(t, b) ==
    [kind |-> "partial", data |-> t, bytes |-> b, cells |-> <<>>, grid |-> NoGrid]

\* the file system after path is written
Write(fs, path, content) ==
    [f \in DOMAIN fs \cup {path} |-> IF f = path THEN content ELSE fs[f]]

\* os.path.join(dir, name) on POSIX: an absolute name replaces dir
PathJoin(dir, name) ==
    IF StartsWith(name, <<"/">>) THEN name
    ELSE IF dir = <<>> \/ dir[Len(dir)] = "/" THEN dir \o name
    ELSE dir \o <<"/">> \o name

\* path.split("/")
RECURSIVE SplitPath(_)
SplitPath(path) ==
    LET c == Find(path, "/")
    IN  IF c = -1 THEN <<path>>
        ELSE <<Slice(path, 0, c)>> \o SplitPath(SliceFrom(path, c + 1))

\* the components left when "", "." and ".." are resolved, as the file
\* system resolves them (no symbolic links)
RECURSIVE ResolveParts(_, _, _)
ResolveParts(parts, stack, abs) ==
    IF parts = <<>> THEN stack
    ELSE LET h == parts[1]
             t == SubSeq(parts, 2, Len(parts))
         IN  IF h = <<>> \/ h = <<".">> THEN ResolveParts(t, stack, abs)
             ELSE IF h # <<".", ".">> THEN ResolveParts(t, Append(stack, h), abs)
             ELSE IF stack # <<>> /\ stack[Len(stack)] # <<".", ".">>
             THEN ResolveParts(t, SubSeq(stack, 1, Len(stack) - 1), abs)
             ELSE IF abs THEN ResolveParts(t, stack, abs)
             ELSE ResolveParts(t, Append(stack, h), abs)

\* where a path leads: from the root or from the working directory, and
\* through which names
Location(path) ==
    LET abs == StartsWith(path, <<"/">>)
    IN  [abs |-> abs, parts |-> ResolveParts(SplitPath(path), <<>>, abs)]

\* loc is a directory that exists: the root, the working directory and the
\* ones above it, or one of ds
IsDirectory(loc, ds) ==
    \/ \A k \in 1..Len(loc.parts) : loc.parts[k] = <<".", ".">>
    \/ \E d \in ds : Location(d) = loc

\* open(path, 'w') raises: the path names a directory, or a name on the way
\* to the file is not a directory
OpenFails(path, ds) ==
    LET abs == StartsWith(path, <<"/">>)
        parts == SplitPath(path)
        upto(k) == [abs |-> abs, parts |-> ResolveParts(SubSeq(parts, 1, k), <<>>, abs)]
    IN  \/ path = <<>>
        \/ path[Len(path)] = "/"
        \/ IsDirectory(Location(path), ds)
        \/ \E k \in 1..(Len(parts) - 1) : ~IsDirectory(upto(k), ds)

\* path lies in directory dir
Under(path, dir) == StartsWith(path, dir \o <<"/">>)

\* shutil.rmtree(dir): the files left
RmTree(fs, dir) == [f \in {g \in DOMAIN fs : ~Under(g, dir)} |-> fs[f]]

\* os.path.join(output_dir, f"qrcode_{index:03d}.png")
ChunkFile(temp_dir, index) == PathJoin(temp_dir, <<"qrcode_">> \o Format03d(index) \o <<".png">>)

\* int(math.ceil(math.sqrt(n)))
CeilSqrt(n) == SetMin({k \in 0..n : k * k >= n})

\* a grid whose derived side is the floor of the division, not the ceiling
GridOfFloorDiv(n, rows, cols) ==
    IF ~rows.some /\ ~cols.some
    THEN LET c == CeilSqrt(n) IN [rows |-> n \div c, cols |-> c]
    ELSE IF ~rows.some THEN [rows |-> n \div cols.val, cols |-> cols.val]
    ELSE IF ~cols.some THEN [rows |-> rows.val, cols |-> n \div rows.val]
    ELSE [rows |-> rows.val, cols |-> cols.val]

\* lines 89-97: the grid used for n images; an argument is None or Some(k)
GridOf(n, rows, cols) ==
    IF ~rows.some /\ ~cols.some
    THEN LET c == CeilSqrt(n) IN [rows |-> CeilDiv(n, c), cols |-> c]
    ELSE IF ~rows.some THEN [rows |-> CeilDiv(n, cols.val), cols |-> cols.val]
    ELSE IF ~cols.some THEN [rows |-> rows.val, cols |-> CeilDiv(n, rows.val)]
    ELSE [rows |-> rows.val, cols |-> cols.val]

\* lines 107-119: the images pasted, in order; the loop stops at rows * cols
Pasted(images, grid) ==
    SubSeq(images, 1, Min2(Len(images), grid.rows * grid.cols))

\* lines 65-87: every image brought to the largest width and height; a smaller
\* one is pasted centred on a white image of that size
NormalizedImages(sizes) ==
    LET max_width == SetMax({sizes[k].width : k \in 1..Len(sizes)})
        max_height == SetMax({sizes[k].height : k \in 1..Len(sizes)})
    IN  [k \in 1..Len(sizes) |->
            IF sizes[k].width = max_width /\ sizes[k].height = max_height
            THEN [width |-> sizes[k].width, height |-> sizes[k].height,
                  x_offset |-> 0, y_offset |-> 0,
                  inner_width |-> sizes[k].width, inner_height |-> sizes[k].height]
            ELSE [width |-> max_width, height |-> max_height,
                  x_offset |-> (max_width - sizes[k].width) \div 2,
                  y_offset |-> (max_height - sizes[k].height) \div 2,
                  inner_width |-> sizes[k].width, inner_height |-> sizes[k].height]]

NoCanvas == [width |-> 0, height |-> 0, boxes |-> <<>>]

\* a paste loop without the test of lines 108-109
LayoutNoBreak(sizes, grid) ==
    LET normalized_images == NormalizedImages(sizes)
        max_width == SetMax({sizes[k].width : k \in 1..Len(sizes)})
        max_height == SetMax({sizes[k].height : k \in 1..Len(sizes)})
    IN  [width |-> grid.cols * max_width + (grid.cols - 1) * QR_CODE_SPACING
                    + 2 * QR_CODE_MARGIN,
         height |-> grid.rows * max_height + (grid.rows - 1) * QR_CODE_SPACING
                    + 2 * QR_CODE_MARGIN,
         boxes |-> [k \in 1..Len(sizes) |->
                      [x |-> QR_CODE_MARGIN + ((k - 1) % grid.cols) * (max_width + QR_CODE_SPACING),
                       y |-> QR_CODE_MARGIN + ((k - 1) \div grid.cols) * (max_height + QR_CODE_SPACING),
                       width |-> normalized_images[k].width,
                       height |-> normalized_images[k].height]]]

\* lines 99-119: the size of the composite and where each image is pasted,
\* boxes[idx + 1] for the image of position idx
Layout(sizes, grid) ==
    LET normalized_images == NormalizedImages(sizes)
        max_width == SetMax({sizes[k].width : k \in 1..Len(sizes)})
        max_height == SetMax({sizes[k].height : k \in 1..Len(sizes)})
        pasted == Min2(Len(sizes), grid.rows * grid.cols)
    IN  [width |-> grid.cols * max_width + (grid.cols - 1) * QR_CODE_SPACING
                    + 2 * QR_CODE_MARGIN,
         height |-> grid.rows * max_height + (grid.rows - 1) * QR_CODE_SPACING
                    + 2 * QR_CODE_MARGIN,
         boxes |-> [k \in 1..pasted |->
                      [x |-> QR_CODE_MARGIN + ((k - 1) % grid.cols) * (max_width + QR_CODE_SPACING),
                       y |-> QR_CODE_MARGIN + ((k - 1) \div grid.cols) * (max_height + QR_CODE_SPACING),
                       width |-> normalized_images[k].width,
                       height |-> normalized_images[k].height]]]

(***************************************************************************)
(* Inputs                                                                  *)
(***************************************************************************)
SeqsUpTo(S, n) == UNION {[1..k -> S] : k \in 0..n}

Texts == SeqsUpTo({"a", ":", "1"}, MaxTextLen)
    \cup {<<WideChar, WideChar, "a">>,
          <<"a", "a", "a", WideChar, WideChar, WideChar, "a">>}

\* bytes.decode('utf-8') succeeds (strict UTF-8)
RECURSIVE IsValidUtf8(_)
IsValidUtf8(b) ==
    LET cont(k) == Len(b) >= k /\ b[k] \in 128..191
        rest(k) == IsValidUtf8(SubSeq(b, k, Len(b)))
    IN  \/ b = <<>>
        \/ b[1] \in 0..127 /\ rest(2)
        \/ b[1] \in 194..223 /\ cont(2) /\ rest(3)
        \/ b[1] = 224 /\ Len(b) >= 2 /\ b[2] \in 160..191 /\ cont(3) /\ rest(4)
        \/ b[1] \in (225..236) \cup {238, 239} /\ cont(2) /\ cont(3) /\ rest(4)
        \/ b[1] = 237 /\ Len(b) >= 2 /\ b[2] \in 128..159 /\ cont(3) /\ rest(4)
        \/ b[1] = 240 /\ Len(b) >= 2 /\ b[2] \in 144..191 /\ cont(3) /\ cont(4) /\ rest(5)
        \/ b[1] \in 241..243 /\ cont(2) /\ cont(3) /\ cont(4) /\ rest(5)
        \/ b[1] = 244 /\ Len(b) >= 2 /\ b[2] \in 128..143 /\ cont(3) /\ cont(4) /\ rest(5)

Buffers == {b \in SeqsUpTo({65, 128, 255}, MaxBinLen) : ~IsValidUtf8(b)}
    \cup {<<255, 216, 255>>, <<0, 255, 16, 131>>}

\* what f.read() gives: a str, or bytes that are not UTF-8
Contents ==
    {[is_text |-> TRUE, text |-> t, bytes |-> <<>>] : t \in Texts}
        \cup {[is_text |-> FALSE, text |-> <<>>, bytes |-> b] : b \in Buffers}

\* os.path.basename(file_path), which on POSIX may hold a ':'
FileNames == {<<"f">>, <<"a", ":", "b">>}

GridArgs == {None} \cup {Some(k) : k \in 1..MaxGridArg}

NoFile == [is_text |-> TRUE, text |-> <<>>, bytes |-> <<>>]

\* create_qr_array(text, chunk_size, rows, cols): the GUI's text tab and the examples
TextCalls ==
    {[api |-> "create_qr_array", file_name |-> <<>>, content |-> NoFile, text |-> t,
      index |-> 0, chunk_size |-> c, rows |-> r, cols |-> k] :
        t \in Texts, c \in 1..MaxChunkSize, r \in GridArgs, k \in GridArgs}

\* encode_file_to_qr_array(file_path, chunk_size, rows, cols)
FileCalls ==
    {[api |-> "encode_file_to_qr_array", file_name |-> f, content |-> x, text |-> <<>>,
      index |-> 0, chunk_size |-> c, rows |-> r, cols |-> k] :
        f \in FileNames, x \in Contents, c \in (1..MaxChunkSize) \cup {1000},
        r \in {None}, k \in {None}}

\* a payload of more chunks than the three digits of the tag count
LongLen == 992
LongCall ==
    [api |-> "encode_file_to_qr_array", file_name |-> <<"f">>,
     content |-> [is_text |-> TRUE, text |-> [k \in 1..LongLen |-> "a"], bytes |-> <<>>],
     text |-> <<>>, index |-> 0, chunk_size |-> 1, rows |-> None, cols |-> None]

\* generate_qr_code(text, index), which the package exports, called by itself
\* with the default output_dir
DirectCalls ==
    {[api |-> "generate_qr_code", file_name |-> <<>>, content |-> NoFile, text |-> t,
      index |-> i, chunk_size |-> 1, rows |-> None, cols |-> None] :
        t \in {<<"a">>, <<"a", "a", "a", WideChar, WideChar, WideChar, "a">>},
        i \in {0, 7, 999, 1000}}

\* the file system before the call: nothing, or a temp directory that is
\* there already and holds a file of the user's
NotesFile == PathJoin(DEFAULT_TEMP_DIR, <<"notes.txt">>)
FileSystems ==
    {[dirs |-> {}, files |-> <<>>],
     [dirs |-> {DEFAULT_TEMP_DIR}, files |-> Write(<<>>, NotesFile, TextFile(<<"a">>))]}

\* strings a scan of some other image may report: frames of both formats,
\* damaged tags and untagged text, in lists of up to MaxScanLen; and single
\* symbols that hold a whole envelope, well formed or not
MaxScanLen == 2
RawTags ==
    {<<>>, index_str(0), index_str(2), index_str(1000), <<"2", ":">>,
     <<"I", "D", "X", ":", "x", ":">>}
RawBodies == {<<"a">>, <<"b", ":">>, index_str(5) \o <<"c">>}
RawFrames == {t \o b : t \in RawTags, b \in RawBodies}
RawEnvelopes ==
    {QRTEXT \o <<"f", ":", "a">>, QRTEXT \o <<"f">>, QRTEXT \o <<":", "a">>,
     QRTEXT \o <<"f", ":">>, <<"Q", "R", "X", ":", "f", ":", "a">>,
     <<"7", ":">> \o QRTEXT \o <<"f", ":", "a">>,
     <<"7", ":">> \o QRFILE \o <<"f", ":", "Q", "Q", "=", "=">>,
     QRTEXT \o <<"a", ":", "b", ":", "a">>}
        \cup {QRFILE \o <<"f", ":">> \o b :
                b \in {<<"Q", "Q", "=", "=">>, <<"Q", "Q", "=">>, <<"Q", "Q">>, <<"Q">>,
                       <<"Q", "!", "Q", "=", "=">>, <<"Q", "Q", "=", "=", "Q", "Q">>,
                       <<"Q", "U", "J", "D">>, <<"Q", WideChar, "Q", "=", "=">>, <<>>}}
RawSingles == {t \o e : t \in {<<>>, index_str(0)}, e \in RawEnvelopes}
\* file names of an envelope that are paths: into a directory, upwards,
\* from the root, and the directory itself
PathNames ==
    {<<"d", "/", "e">>, <<".", ".", "/", "e">>, <<"/", "e">>, <<".", ".">>, <<".", "/", "e">>,
     <<"d", "/", ".", ".", "/", ".", ".", "/", "e">>}
\* plain text that holds a tag, texts with a line break, a scan with a gap
\* in its indices, payloads with a numeric prefix and no envelope behind it
RawOddities ==
    {<< <<"a">> \o index_str(5) \o <<"c">> >>,
     << index_str(0) \o <<"a", "\n", "b">> >>,
     << index_str(2) \o <<"\n", "b">>, index_str(0) \o <<"a">> >>,
     << <<"2", ":", "a", "\n", "b">>, index_str(0) \o <<"a">> >>,
     << index_str(1) \o <<"b">>, index_str(3) \o <<"d">>, index_str(0) \o <<"a">> >>,
     << index_str(1000) \o <<"a">>, <<"I", "D", "X", ":", "+", "7", ":", "b">>,
        <<"I", "D", "X", ":", ":", "c">> >>,
     << index_str(0) \o <<"7", ":", "Q", "R", "X", ":", "f", ":", "a">> >>,
     << index_str(0) \o <<"7", ":", "8", ":">> \o QRTEXT \o <<"f", ":", "a">> >>}
        \cup {<< QRTEXT \o name \o <<":", "a">> >> : name \in PathNames}
RawLists ==
    SeqsUpTo(RawFrames, MaxScanLen) \cup {<<x>> : x \in RawSingles} \cup RawOddities

\* the orders in which a scan may report n symbols
ScanOrders(n) ==
    IF n <= MaxPermLen
    THEN {q \in [1..n -> 1..n] : \A a, b \in 1..n : a # b => q[a] # q[b]}
    ELSE {[k \in 1..n |-> k], [k \in 1..n |-> n + 1 - k]}

(***************************************************************************)
(* State                                                                   *)
(***************************************************************************)
VARIABLES
    pc,             \* where the running call stands
    call,           \* the arguments of the encode call
    text,           \* create_qr_array: text
    chunks,         \* create_qr_array: chunks
    filenames,      \* create_qr_array: filenames
    dirs,           \* the directories that exist
    files,          \* the files that exist, path |-> content
    result,         \* the outcome of create_qr_array: returned or raised
    calls,          \* how often generate_qr_code and the others were entered
    qr_data_list,   \* read_qr_array: qr_data_list
    combined_text,  \* decode_qr_array_to_file: combined_text
    unwrapped,      \* decode_qr_array_to_file: file_name, file_content, is_text
    decoded,        \* what decode_qr_array_to_file returned
    stages,         \* the stages of the decode pipeline entered so far, in order
    canvas,         \* the composite: its size in pixels and where the images are
    workers         \* the create_qr_array calls of the GUI's worker threads

vars == <<pc, call, text, chunks, filenames, dirs, files, result, calls,
          qr_data_list, combined_text, unwrapped, decoded, stages, canvas, workers>>

encVars == <<call, text, chunks, filenames, result, calls, canvas, workers>>
decVars == <<qr_data_list, combined_text, unwrapped, decoded, stages>>

NoResult == [kind |-> "none", array_file |-> None, count |-> 0, error |-> ""]
NoUnwrap == [ok |-> FALSE, why |-> "", is_text |-> FALSE,
             file_name |-> <<>>, file_content |-> <<>>]
NoCalls == [generate |-> 0, arrange |-> 0, clean |-> 0, failed_at |-> -1]

NoCall ==
    [api |-> "none", file_name |-> <<>>, content |-> NoFile, text |-> <<>>,
     index |-> 0, chunk_size |-> 1, rows |-> None, cols |-> None]

\* what does not depend on the input
InitRest ==
    /\ text = <<>>
    /\ chunks = <<>>
    /\ filenames = <<>>
    /\ result = NoResult
    /\ calls = NoCalls
    /\ qr_data_list = None
    /\ combined_text = None
    /\ unwrapped = NoUnwrap
    /\ decoded = None
    /\ stages = <<>>
    /\ canvas = NoCanvas

\* either an encode call is about to run, or an image from elsewhere is about
\* to be decoded
Init ==
    /\ \/ /\ pc = "call"
          /\ call \in TextCalls \cup FileCalls \cup DirectCalls
          /\ \E fs \in FileSystems :
                /\ call.api = "create_qr_array" \/ fs.dirs = {}
                /\ dirs = fs.dirs
                /\ files = fs.files
       \/ /\ pc = "decode"
          /\ call = NoCall
          /\ dirs = {}
          /\ \E raw \in RawLists :
                files = Write(<<>>, OutputFile, ArrayImage(raw, NoGrid))
    /\ workers = <<>>
    /\ InitRest

\* the encode call of a payload of more than 1000 chunks
InitLong ==
    /\ pc = "call"
    /\ call = LongCall
    /\ dirs = {}
    /\ files = <<>>
    /\ workers = <<>>
    /\ InitRest

(***************************************************************************)
(* Encoding: encode_file_to_qr_array and create_qr_array                   *)
(***************************************************************************)
\* entry, and line 141: chunks = split_text(text, chunk_size)
create_qr_array ==
    /\ pc = "call"
    /\ call.api # "generate_qr_code"
    /\ LET t == IF call.api = "create_qr_array" THEN call.text
                ELSE full_data(call.file_name, call.content)
       IN  /\ text' = t
           /\ chunks' = split_text(t, call.chunk_size)
    /\ pc' = "loop"
    /\ UNCHANGED <<call, filenames, dirs, files, result, calls, canvas, workers, decVars>>

\* a loop that notes the failure of a chunk and goes on with the next one
generate_qr_code_goes_on ==
    /\ pc = "loop"
    /\ Len(filenames) < Len(chunks)
    /\ LET i == Len(filenames)
           tagged == text_with_index(chunks[i + 1], i)
           filename == ChunkFile(DEFAULT_TEMP_DIR, i)
       IN  IF RenderFails(tagged)
           THEN /\ result' = [kind |-> "raise", array_file |-> None, count |-> 0,
                              error |-> "ValueError"]
                /\ calls' = [calls EXCEPT !.generate = @ + 1, !.failed_at = i]
                /\ filenames' = Append(filenames, filename)
                /\ UNCHANGED <<pc, dirs, files>>
           ELSE /\ dirs' = dirs \cup {DEFAULT_TEMP_DIR}
                /\ files' = Write(files, filename, QrImage(tagged))
                /\ filenames' = Append(filenames, filename)
                /\ calls' = [calls EXCEPT !.generate = @ + 1]
                /\ UNCHANGED <<pc, result>>
    /\ UNCHANGED <<call, text, chunks, canvas, workers, decVars>>

\* lines 21-55, generate_qr_code(text, index) called by itself: it raises
\* ValueError, or makes the directory, saves the image and returns its path
generate_qr_code_call ==
    /\ pc = "call"
    /\ call.api = "generate_qr_code"
    /\ LET tagged == text_with_index(call.text, call.index)
           filename == ChunkFile(DEFAULT_TEMP_DIR, call.index)
       IN  IF RenderFails(tagged)
           THEN /\ result' = [kind |-> "raise", array_file |-> None, count |-> 0,
                              error |-> "ValueError"]
                /\ UNCHANGED <<dirs, files>>
           ELSE /\ dirs' = dirs \cup {DEFAULT_TEMP_DIR}
                /\ files' = Write(files, filename, QrImage(tagged))
                /\ result' = [kind |-> "return", array_file |-> Some(filename),
                              count |-> 0, error |-> ""]
    /\ calls' = [calls EXCEPT !.generate = @ + 1]
    /\ pc' = "done"
    /\ UNCHANGED <<call, text, chunks, filenames, canvas, workers, decVars>>

\* lines 147-149, one turn of the loop: generate_qr_code(chunk, i, temp_dir)
generate_qr_code ==
    /\ pc = "loop"
    /\ Len(filenames) < Len(chunks)
    /\ LET i == Len(filenames)
           tagged == text_with_index(chunks[i + 1], i)
           filename == ChunkFile(DEFAULT_TEMP_DIR, i)
       IN  IF RenderFails(tagged)
           THEN /\ result' = [kind |-> "raise", array_file |-> None, count |-> 0,
                              error |-> "ValueError"]
                /\ calls' = [calls EXCEPT !.generate = @ + 1, !.failed_at = i]
                /\ pc' = "finally"
                /\ UNCHANGED <<filenames, dirs, files>>
           ELSE /\ dirs' = dirs \cup {DEFAULT_TEMP_DIR}
                /\ files' = Write(files, filename, QrImage(tagged))
                /\ filenames' = Append(filenames, filename)
                /\ calls' = [calls EXCEPT !.generate = @ + 1]
                /\ UNCHANGED <<pc, result>>
    /\ UNCHANGED <<call, text, chunks, canvas, workers, decVars>>

\* lines 151-154: arrange_qr_codes_in_array(filenames, rows, cols, output_file)
\* and the return; result.save may fail
arrange_qr_codes_in_array ==
    /\ pc = "loop"
    /\ Len(filenames) = Len(chunks)
    /\ calls' = [calls EXCEPT !.arrange = @ + 1]
    /\ \E saved \in BOOLEAN :
         LET n == Len(filenames)
             grid == GridOf(n, call.rows, call.cols)
             missing == \E k \in 1..n : filenames[k] \notin DOMAIN files
             images == [k \in 1..n |-> files[filenames[k]].data]
             sizes == [k \in 1..n |-> ImageSize(files[filenames[k]].data)]
         IN  IF n = 0                                       \* lines 59-60
             THEN /\ saved
                  /\ result' = [kind |-> "return", array_file |-> None,
                                count |-> Len(chunks), error |-> ""]
                  /\ UNCHANGED <<files, canvas>>
             ELSE IF missing
             THEN /\ saved
                  /\ result' = [kind |-> "raise", array_file |-> None, count |-> 0,
                                error |-> "FileNotFoundError"]
                  /\ UNCHANGED <<files, canvas>>
             ELSE IF ~saved
             THEN /\ result' = [kind |-> "raise", array_file |-> None, count |-> 0,
                                error |-> "OSError"]
                  /\ UNCHANGED <<files, canvas>>
             ELSE /\ files' = Write(files, OutputFile, ArrayImage(Pasted(images, grid), grid))
                  /\ canvas' = Layout(sizes, grid)
                  /\ result' = [kind |-> "return", array_file |-> Some(OutputFile),
                                count |-> Len(chunks), error |-> ""]
    /\ pc' = "finally"
    /\ UNCHANGED <<call, text, chunks, filenames, dirs, workers, decVars>>

\* a cleanup that runs after a successful return only, not in a finally clause
clean_after_success_only ==
    /\ pc = "finally"
    /\ calls' = [calls EXCEPT !.clean = @ + 1]
    /\ IF DEFAULT_TEMP_DIR \in dirs /\ result.kind = "return"
       THEN /\ dirs' = dirs \ {DEFAULT_TEMP_DIR}
            /\ files' = RmTree(files, DEFAULT_TEMP_DIR)
       ELSE UNCHANGED <<dirs, files>>
    /\ pc' = "returned"
    /\ UNCHANGED <<call, text, chunks, filenames, result, canvas, workers, decVars>>

\* lines 158-160 and 126-136: the finally clause, then the call ends;
\* shutil.rmtree is taken to succeed (its errors are caught and printed)
clean_temp_directory ==
    /\ pc = "finally"
    /\ calls' = [calls EXCEPT !.clean = @ + 1]
    /\ IF DEFAULT_TEMP_DIR \in dirs
       THEN /\ dirs' = dirs \ {DEFAULT_TEMP_DIR}
            /\ files' = RmTree(files, DEFAULT_TEMP_DIR)
       ELSE UNCHANGED <<dirs, files>>
    /\ pc' = "returned"
    /\ UNCHANGED <<call, text, chunks, filenames, result, canvas, workers, decVars>>

(***************************************************************************)
(* Decoding: decode_qr_array_to_file                                       *)
(***************************************************************************)
\* read_qr_array, line 246: extract_qr_codes_from_array(array_image_path);
\* a missing image gives [], the symbols of an image come in any order
extract_qr_codes_from_array ==
    /\ pc \in {"returned", "decode"}
    /\ LET cells == IF OutputFile \in DOMAIN files THEN files[OutputFile].cells ELSE <<>>
       IN  \E q \in ScanOrders(Len(cells)) :
             qr_data_list' = Some([k \in 1..Len(cells) |-> cells[q[k]]])
    /\ stages' = Append(stages, "Scanning")
    /\ pc' = "scanned"
    /\ UNCHANGED <<encVars, dirs, files, combined_text, unwrapped, decoded>>

\* a read_qr_array that hands the scan to combine_qr_code_data without looking
\* whether it is empty
read_qr_array_unguarded ==
    /\ pc = "scanned"
    /\ combined_text' = combine_qr_code_data(qr_data_list.val)
    /\ stages' = stages \o (IF combined_text'.some THEN <<"Parsing", "Reassembling">>
                             ELSE <<"Parsing">>)
    /\ pc' = "combined"
    /\ UNCHANGED <<encVars, dirs, files, qr_data_list, unwrapped, decoded>>

\* read_qr_array, lines 248-262: no scanned code, no call of
\* combine_qr_code_data; a call that returns None has parsed and not
\* reassembled
read_qr_array ==
    /\ pc = "scanned"
    /\ combined_text' = IF qr_data_list.val = <<>> THEN None
                        ELSE combine_qr_code_data(qr_data_list.val)
    /\ stages' = IF qr_data_list.val = <<>> THEN stages
                 ELSE IF combined_text'.some
                      THEN stages \o <<"Parsing", "Reassembling">>
                      ELSE Append(stages, "Parsing")
    /\ pc' = "combined"
    /\ UNCHANGED <<encVars, dirs, files, qr_data_list, unwrapped, decoded>>

\* an unwrap that makes the output directory before it looks at the kind
unwrap_makedirs_first ==
    /\ pc = "combined"
    /\ unwrapped' = Unwrap(combined_text)
    /\ stages' = IF Unwrap(combined_text).why = "no data" THEN stages
                 ELSE Append(stages, "Unwrapping")
    /\ dirs' = IF Unwrap(combined_text).why = "no data" THEN dirs
               ELSE dirs \cup {OutputDir}
    /\ IF Unwrap(combined_text).ok
       THEN pc' = "write" /\ UNCHANGED decoded
       ELSE pc' = "decoded" /\ decoded' = None
    /\ UNCHANGED <<encVars, files, qr_data_list, combined_text>>

\* decode_qr_array_to_file, lines 64-111: without a combined text (None or
\* empty) the call returns at line 66 and nothing is unwrapped
unwrap ==
    /\ pc = "combined"
    /\ unwrapped' = Unwrap(combined_text)
    /\ stages' = IF Unwrap(combined_text).why = "no data" THEN stages
                 ELSE Append(stages, "Unwrapping")
    /\ IF Unwrap(combined_text).ok
       THEN pc' = "write" /\ UNCHANGED decoded
       ELSE pc' = "decoded" /\ decoded' = None
    /\ UNCHANGED <<encVars, dirs, files, qr_data_list, combined_text>>

WriteOutcomes == {"ok", "makedirs fails", "open fails", "write fails"}

\* decode_qr_array_to_file, lines 113-142
write_file ==
    /\ pc = "write"
    /\ \E env \in WriteOutcomes :
         LET output_path == PathJoin(OutputDir, unwrapped.file_name)
             file_data == b64decode(unwrapped.file_content)
         IN  IF env = "makedirs fails"
             THEN decoded' = None /\ UNCHANGED <<dirs, files>>
             ELSE /\ dirs' = dirs \cup {OutputDir}
                  /\ IF \/ ~unwrapped.is_text /\ ~file_data.some
                        \/ env = "open fails"
                        \/ OpenFails(output_path, dirs \cup {OutputDir})
                     THEN decoded' = None /\ UNCHANGED files
                     ELSE IF env = "write fails"
                     THEN /\ decoded' = None
                          /\ files' = Write(files, output_path, PartialFile(<<>>, <<>>))
                     ELSE /\ decoded' = Some(output_path)
                          /\ files' = Write(files, output_path,
                                            IF unwrapped.is_text
                                            THEN TextFile(unwrapped.file_content)
                                            ELSE BytesFile(file_data.val))
    /\ pc' = "decoded"
    /\ UNCHANGED <<encVars, qr_data_list, combined_text, unwrapped, stages>>

Next ==
    \/ create_qr_array
    \/ generate_qr_code_call
    \/ generate_qr_code
    \/ arrange_qr_codes_in_array
    \/ clean_temp_directory
    \/ extract_qr_codes_from_array
    \/ read_qr_array
    \/ unwrap
    \/ write_file

Spec == Init /\ [][Next]_vars

SpecLong == InitLong /\ [][Next]_vars

(***************************************************************************)
(* qr_array_gui.py: two worker threads in create_qr_array at the same time *)
(***************************************************************************)
MaxThreadChunk == 2   \* largest chunk_size of a worker thread's call

\* start_worker starts a thread for every click; nothing keeps a second
\* click from coming while the first thread runs.  Each thread gets its own
\* text and output file; temp_dir is the default in both.
Threads == {1, 2}
ThreadOutputFile(w) == IF w = 1 THEN <<"one.png">> ELSE <<"two.png">>
ThreadTexts(w) ==
    IF w = 1 THEN {<<"a", "b">>, <<"a", "b", "c">>} ELSE {<<"x", "y">>, <<"x">>}
NewThread(w, t, c) ==
    [pc |-> "call", text |-> t, chunk_size |-> c, chunks |-> <<>>, filenames |-> <<>>,
     output_file |-> ThreadOutputFile(w), kind |-> "none", error |-> "", cells |-> <<>>]

InitThreads ==
    /\ pc = "threads"
    /\ call = NoCall
    /\ dirs = {}
    /\ files = <<>>
    /\ \E t1 \in ThreadTexts(1), t2 \in ThreadTexts(2), c1, c2 \in 1..MaxThreadChunk :
          workers = <<NewThread(1, t1, c1), NewThread(2, t2, c2)>>
    /\ InitRest

ThreadFrame == UNCHANGED <<pc, call, text, chunks, filenames, result, calls, canvas, decVars>>

\* line 141: chunks = split_text(text, chunk_size)
thread_split_text ==
    /\ pc = "threads"
    /\ \E w \in Threads :
         /\ workers[w].pc = "call"
         /\ workers' = [workers EXCEPT
                ![w].chunks = split_text(workers[w].text, workers[w].chunk_size),
                ![w].pc = "loop"]
    /\ UNCHANGED <<dirs, files>>
    /\ ThreadFrame

\* lines 147-148 and 23-52: generate_qr_code up to os.makedirs
thread_makedirs ==
    /\ pc = "threads"
    /\ \E w \in Threads :
         LET me == workers[w]
             i == Len(me.filenames)
         IN  /\ me.pc = "loop"
             /\ i < Len(me.chunks)
             /\ IF RenderFails(text_with_index(me.chunks[i + 1], i))
                THEN /\ workers' = [workers EXCEPT ![w].kind = "raise",
                                       ![w].error = "ValueError", ![w].pc = "finally"]
                     /\ UNCHANGED dirs
                ELSE /\ dirs' = dirs \cup {DEFAULT_TEMP_DIR}
                     /\ workers' = [workers EXCEPT ![w].pc = "save"]
    /\ UNCHANGED files
    /\ ThreadFrame

\* lines 53-55 and 149: img.save(filename), which fails when the directory
\* is gone, and filenames.append(filename)
thread_img_save ==
    /\ pc = "threads"
    /\ \E w \in Threads :
         LET me == workers[w]
             i == Len(me.filenames)
             filename == ChunkFile(DEFAULT_TEMP_DIR, i)
         IN  /\ me.pc = "save"
             /\ IF DEFAULT_TEMP_DIR \notin dirs
                THEN /\ workers' = [workers EXCEPT ![w].kind = "raise",
                                       ![w].error = "FileNotFoundError",
                                       ![w].pc = "finally"]
                     /\ UNCHANGED files
                ELSE /\ files' = Write(files, filename,
                                       QrImage(text_with_index(me.chunks[i + 1], i)))
                     /\ workers' = [workers EXCEPT
                                       ![w].filenames = Append(me.filenames, filename),
                                       ![w].pc = "loop"]
    /\ UNCHANGED dirs
    /\ ThreadFrame

\* lines 151-154: arrange_qr_codes_in_array opens the files of filenames and
\* saves the composite
thread_arrange ==
    /\ pc = "threads"
    /\ \E w \in Threads :
         LET me == workers[w]
             n == Len(me.filenames)
             grid == GridOf(n, None, None)
             missing == \E k \in 1..n : me.filenames[k] \notin DOMAIN files
             images == [k \in 1..n |-> files[me.filenames[k]].data]
         IN  /\ me.pc = "loop"
             /\ n = Len(me.chunks)
             /\ IF n = 0
                THEN /\ workers' = [workers EXCEPT ![w].kind = "return",
                                       ![w].pc = "finally"]
                     /\ UNCHANGED files
                ELSE IF missing
                THEN /\ workers' = [workers EXCEPT ![w].kind = "raise",
                                       ![w].error = "FileNotFoundError",
                                       ![w].pc = "finally"]
                     /\ UNCHANGED files
                ELSE /\ files' = Write(files, me.output_file,
                                       ArrayImage(Pasted(images, grid), grid))
                     /\ workers' = [workers EXCEPT ![w].kind = "return",
                                       ![w].cells = Pasted(images, grid),
                                       ![w].pc = "finally"]
    /\ UNCHANGED dirs
    /\ ThreadFrame

\* lines 158-160 and 126-136: the finally clause
thread_clean_temp_directory ==
    /\ pc = "threads"
    /\ \E w \in Threads :
         /\ workers[w].pc = "finally"
         /\ workers' = [workers EXCEPT ![w].pc = "returned"]
    /\ IF DEFAULT_TEMP_DIR \in dirs
       THEN /\ dirs' = dirs \ {DEFAULT_TEMP_DIR}
            /\ files' = RmTree(files, DEFAULT_TEMP_DIR)
       ELSE UNCHANGED <<dirs, files>>
    /\ ThreadFrame

NextThreads ==
    \/ thread_split_text
    \/ thread_makedirs
    \/ thread_img_save
    \/ thread_arrange
    \/ thread_clean_temp_directory

SpecThreads == InitThreads /\ [][NextThreads]_vars

(***************************************************************************)
(* Properties                                                              *)
(***************************************************************************)
Ids(n) == [k \in 1..n |-> k]
Concat(seqs) == JoinRange(seqs, Ids(Len(seqs)), 1, Len(seqs))

EncodeStarted == call.api \in {"create_qr_array", "encode_file_to_qr_array"} /\ pc # "call"
TextFileCall == call.api = "encode_file_to_qr_array" /\ call.content.is_text
BinaryFileCall == call.api = "encode_file_to_qr_array" /\ ~call.content.is_text
NothingUnder(dir) == \A f \in DOMAIN files : ~Under(f, dir)

\* C1: for every text T, file name and chunk size, wrapping T, splitting it,
\* tagging the chunks, combining the tagged strings scanned in any order and
\* unwrapping yields the content T (and writes it), whatever the number of
\* chunks.
PipelineRoundTrip ==
    (TextFileCall /\ result.kind = "return" /\ pc \in {"write", "decoded"}) =>
        /\ unwrapped.ok
        /\ unwrapped.is_text
        /\ unwrapped.file_content = call.content.text
        /\ decoded.some => files[decoded.val] = TextFile(call.content.text)

\* C2: split_text returns ceil(len(text)/chunk_size) chunks, chunk i being
\* text[i*chunk_size : min((i+1)*chunk_size, len(text))]; the chunk images
\* carry the indices 0..N-1 in order, each once; the chunks concatenated in
\* index order are the text.
SplitTextExact ==
    EncodeStarted =>
        LET n == Len(text)
            c == call.chunk_size
        IN  /\ Len(chunks) = CeilDiv(n, c)
            /\ \A i \in 0..(Len(chunks) - 1) :
                 chunks[i + 1] = SubSeq(text, i * c + 1, Min2((i + 1) * c, n))
            /\ Concat(chunks) = text
            /\ \A j, k \in 1..Len(filenames) : j # k => filenames[j] # filenames[k]
            /\ pc = "loop" =>
                 \A k \in 1..Len(filenames) :
                    files[filenames[k]].data = index_str(k - 1) \o chunks[k]

\* a split into several chunks of which the last is shorter, all rendered
SplitTextWitness ==
    /\ pc = "loop"
    /\ Len(chunks) >= 3
    /\ Len(filenames) = Len(chunks)
    /\ Len(chunks[Len(chunks)]) < call.chunk_size

\* C3: generate_qr_code makes no chunk image for an index above 999, neither
\* in the loop of create_qr_array nor called by itself: it raises; and an
\* encode of more than 1000 chunks ends in an error, not in a composite.
IndexOverflowRaised ==
    /\ \A k \in 1..Len(filenames) : k - 1 <= 999
    /\ (pc = "returned" /\ Len(chunks) > 1000) => result.kind = "raise"
    /\ (pc = "done" /\ call.index > 999) =>
         /\ result.kind = "raise"
         /\ ChunkFile(DEFAULT_TEMP_DIR, call.index) \notin DOMAIN files

IsCurrentFrame(s) == NewFormatAt(s, 1)
FrameIndex(s) == IntOfDigits(SubSeq(s, 5, 7))
FrameText(s) == SliceFrom(s, 8)
CurrentFramesDistinct(list) ==
    /\ list # <<>>
    /\ \A k \in 1..Len(list) : IsCurrentFrame(list[k])
    /\ \A j, k \in 1..Len(list) : j # k => FrameIndex(list[j]) # FrameIndex(list[k])
\* the texts of frames with distinct indices, in ascending order of index
AscendingTexts(list) ==
    LET idx == {FrameIndex(list[k]) : k \in 1..Len(list)}
        txt == [i \in idx |-> FrameText(list[CHOOSE k \in 1..Len(list) : FrameIndex(list[k]) = i])]
    IN  JoinRange(txt, Sorted(idx), 1, Cardinality(idx))
Reordered(list, q) == [k \in 1..Len(list) |-> list[q[k]]]

\* C4: for current-format frames with pairwise distinct indices,
\* combine_qr_code_data returns the frame texts in ascending index order, and
\* the same for every order of the list.
OutOfOrderTolerance ==
    (pc = "combined" /\ CurrentFramesDistinct(qr_data_list.val)) =>
        /\ combined_text = Some(AscendingTexts(qr_data_list.val))
        /\ \A q \in ScanOrders(Len(qr_data_list.val)) :
             combine_qr_code_data(Reordered(qr_data_list.val, q)) = combined_text

\* frames with distinct indices that were scanned out of order, one of them
\* with a text that itself holds a tag
OutOfOrderWitness ==
    /\ pc = "combined"
    /\ CurrentFramesDistinct(qr_data_list.val)
    /\ Len(qr_data_list.val) >= 2
    /\ FrameIndex(qr_data_list.val[1]) > FrameIndex(qr_data_list.val[2])
    /\ \E k \in 1..Len(qr_data_list.val) : IsCurrentFrame(FrameText(qr_data_list.val[k]))

\* C5: whatever rows and cols the caller gives, the grid holds every image:
\* rows * cols >= n, and the composite holds as many symbols as the chunk
\* count create_qr_array returns.
GridHoldsEveryImage ==
    (pc \in {"finally", "returned"} /\ result.kind = "return" /\ result.array_file.some) =>
        /\ files[OutputFile].grid.rows * files[OutputFile].grid.cols >= Len(filenames)
        /\ Len(files[OutputFile].cells) = result.count

\* C6: when decode_qr_array_to_file returns None, for whatever reason, no
\* output file has been created or written.
FailedDecodeWritesNothing ==
    (pc = "decoded" /\ ~decoded.some) => NothingUnder(OutputDir)

\* a base64 text as b64encode makes it: characters of the alphabet in groups
\* of four, the last group ending in at most two '='
WellFormedBase64(b) ==
    /\ Len(b) % 4 = 0
    /\ \A k \in 1..Len(b) :
         \/ b[k] \in B64Chars
         \/ b[k] = "=" /\ k >= Len(b) - 1 /\ (k = Len(b) \/ b[Len(b)] = "=")

\* C7: a QRFILE body that is not well-formed base64 makes the decode fail: it
\* returns None and creates no output file.
MalformedBase64Rejected ==
    (pc = "decoded" /\ unwrapped.ok /\ ~unwrapped.is_text
        /\ ~WellFormedBase64(unwrapped.file_content)) =>
        /\ ~decoded.some
        /\ NothingUnder(OutputDir)

\* C8: bytes B that are not UTF-8, wrapped as QRFILE:<filename>:<base64(B)>
\* and unwrapped, come back as B, and the file written holds exactly B.
BinaryRoundTrip ==
    (BinaryFileCall /\ result.kind = "return" /\ pc \in {"write", "decoded"}) =>
        /\ unwrapped.ok
        /\ ~unwrapped.is_text
        /\ b64decode(unwrapped.file_content) = Some(call.content.bytes)
        /\ decoded.some => files[decoded.val] = BytesFile(call.content.bytes)

EncodeErrorAborts ==
    (EncodeStarted /\ result.error = "ValueError") =>
        /\ calls.generate = calls.failed_at + 1
        /\ calls.arrange = 0
        /\ OutputFile \notin DOMAIN files
        /\ result.kind = "raise"
        /\ pc # "loop"

\* chunk k > 0 failed with chunks after it still to come, and the call ended
EncodeErrorWitness ==
    /\ pc = "returned"
    /\ result.error = "ValueError"
    /\ calls.failed_at >= 1
    /\ calls.failed_at + 1 < Len(chunks)
    /\ Len(filenames) = calls.failed_at

PipelineStages == <<"Scanning", "Parsing", "Reassembling", "Unwrapping">>
IsPrefix(a, b) == Len(a) <= Len(b) /\ SubSeq(b, 1, Len(a)) = a
Decoding == pc \in {"scanned", "combined", "write", "decoded"}

\* the stages are entered in the order of the pipeline, each at most once; no
\* stage is entered after one before it has failed; Done is a path returned
\* with the file written after all four stages, Failed is None
StagesInOrder ==
    /\ IsPrefix(stages, PipelineStages)
    /\ Decoding <=> stages # <<>>
    /\ (Decoding /\ qr_data_list.val = <<>>) => stages = <<"Scanning">>
    /\ (pc \in {"combined", "write", "decoded"} /\ ~combined_text.some) =>
         Len(stages) <= 2
    /\ (pc \in {"write", "decoded"} /\ ~unwrapped.ok) => ~decoded.some
    /\ pc = "write" => stages = PipelineStages /\ unwrapped.ok
    /\ (pc = "decoded" /\ decoded.some) =>
         /\ stages = PipelineStages
         /\ decoded.val \in DOMAIN files
         /\ files[decoded.val].kind \in {"text", "bytes"}
    /\ pc # "decoded" => ~decoded.some

\* how far the decode has come
StageRank(p) ==
    IF p = "scanned" THEN 1 ELSE IF p = "combined" THEN 2
    ELSE IF p = "write" THEN 3 ELSE IF p = "decoded" THEN 4 ELSE 0

LeadingDigits(s) ==
    LET nondigit == {p \in 1..Len(s) : s[p] \notin Digits}
    IN  IF nondigit = {} THEN Len(s) ELSE SetMin(nondigit) - 1
IsLegacyFrame(s) ==
    LET d == LeadingDigits(s) IN d >= 1 /\ d < Len(s) /\ s[d + 1] = ":"
IsFrame(s) == IsCurrentFrame(s) \/ IsLegacyFrame(s)
IndexOfFrame(s) ==
    IF IsCurrentFrame(s) THEN FrameIndex(s)
    ELSE IntOfDigits(SubSeq(s, 1, LeadingDigits(s)))
TextOfFrame(s) ==
    IF IsCurrentFrame(s) THEN FrameText(s) ELSE SliceFrom(s, LeadingDigits(s) + 1)
AllFrames(list) == list # <<>> /\ \A k \in 1..Len(list) : IsFrame(list[k])
FrameIndices(list) == {IndexOfFrame(list[k]) : k \in 1..Len(list)}

\* the texts of a mapping in ascending order of index
RECURSIVE AscendingJoin(_, _)
AscendingJoin(m, S) ==
    IF S = {} THEN <<>>
    ELSE LET i == SetMin(S) IN m[i] \o AscendingJoin(m, S \ {i})

\* for a list of frames: per index the text of the last frame that carries it
LastTexts(list) ==
    [i \in FrameIndices(list) |->
        TextOfFrame(list[SetMax({k \in 1..Len(list) : IndexOfFrame(list[k]) = i})])]
Scanned == qr_data_list.val
Combined == pc = "combined" /\ Scanned # <<>>

\* C12: a single raw string that has the form of neither frame format is
\* returned verbatim.
SingleChunkShortcut ==
    (Combined /\ Len(Scanned) = 1 /\ ~IsFrame(Scanned[1])) =>
        combined_text = Some(Scanned[1])

\* C13: when frames of either format carry the same index, the text of the
\* last of them in the list is used and the index gives one text: the output
\* is, in ascending order of index, the text of the last frame of each index.
DuplicateLastWins ==
    (Combined /\ AllFrames(Scanned)
        /\ Cardinality(FrameIndices(Scanned)) < Len(Scanned)) =>
        combined_text = Some(AscendingJoin(LastTexts(Scanned), FrameIndices(Scanned)))

\* least k >= 1 with k * m >= n
LeastMultiple(n, m) == CHOOSE k \in 1..n : k * m >= n /\ \A j \in 1..(k - 1) : j * m < n
\* least k >= 1 with k * k >= n
LeastRoot(n) == CHOOSE k \in 1..n : k * k >= n /\ \A j \in 1..(k - 1) : j * j < n
Composed ==
    pc \in {"finally", "returned"} /\ result.kind = "return" /\ result.array_file.some

\* C14: with n >= 1 images and neither rows nor cols given, cols is
\* ceil(sqrt(n)) and rows ceil(n/cols); with only cols given rows is
\* ceil(n/cols); with only rows given cols is ceil(n/rows).
GridSizing ==
    Composed =>
        LET n == Len(filenames)
            grid == files[OutputFile].grid
        IN  /\ (~call.rows.some /\ ~call.cols.some) =>
                 /\ grid.cols = LeastRoot(n)
                 /\ grid.rows = LeastMultiple(n, grid.cols)
            /\ (~call.rows.some /\ call.cols.some) =>
                 /\ grid.cols = call.cols.val
                 /\ grid.rows = LeastMultiple(n, call.cols.val)
            /\ (call.rows.some /\ ~call.cols.some) =>
                 /\ grid.rows = call.rows.val
                 /\ grid.cols = LeastMultiple(n, call.rows.val)

\* seven images and no rows or cols: a grid of 3 by 3
GridSizingWitness ==
    /\ Composed
    /\ Len(filenames) = 7
    /\ ~call.rows.some /\ ~call.cols.some
    /\ files[OutputFile].grid = [rows |-> 3, cols |-> 3]

\* C15: create_qr_array of an empty text ends in an error: it returns no
\* result and makes no grid.
EmptyInputIsError ==
    (EncodeStarted /\ text = <<>> /\ pc = "returned") =>
        /\ result.kind = "raise"
        /\ OutputFile \notin DOMAIN files

\* the mapping combine_qr_code_data has built when it reaches its last lines
Recovered(list) ==
    LET n == Len(list)
        indexed_data == DictOf([k \in 1..n |-> ParseFrame(list[k])])
    IN  IF n = 1 /\ ~ParseFrame(list[1]).matched THEN <<>>
        ELSE IF DOMAIN indexed_data # {} THEN indexed_data
        ELSE IF \A k \in 1..n : StartsWith(list[k], <<"I", "D", "X", ":">>)
        THEN DictOf([k \in 1..n |-> ManualFrame(list[k])])
        ELSE <<>>
HasGap(S) == \E i \in SetMin(S)..SetMax(S) : i \notin S

\* C16: when the recovered indices are not contiguous, combine_qr_code_data
\* reports nothing and returns the texts of the indices present, in ascending
\* order.
GapsNotDetected ==
    (Combined /\ DOMAIN Recovered(Scanned) # {} /\ HasGap(DOMAIN Recovered(Scanned))) =>
        combined_text =
            Some(AscendingJoin(Recovered(Scanned), DOMAIN Recovered(Scanned)))

\* indices 0, 1 and 3 scanned out of order, 2 missing
GapsNotDetectedWitness ==
    /\ Combined
    /\ DOMAIN Recovered(Scanned) = {0, 1, 3}
    /\ FrameIndex(Scanned[1]) > FrameIndex(Scanned[Len(Scanned)])
    /\ combined_text = Some(<<"a", "b", "d">>)

\* string k of the list is neither parsed nor recovered
Discarded(list, k) ==
    /\ ~ParseFrame(list[k]).matched
    /\ k \notin {j \in 1..Len(list) :
                    /\ \A i \in 1..Len(list) : ~ParseFrame(list[i]).matched
                    /\ \A i \in 1..Len(list) : StartsWith(list[i], <<"I", "D", "X", ":">>)
                    /\ ManualFrame(list[j]).matched}

\* C17: when more than one string was scanned and one of them is neither
\* parsed nor recovered, combine_qr_code_data returns None, not a payload made
\* of the other strings.
NoSilentDiscard ==
    (Combined /\ Len(Scanned) > 1
        /\ \E k \in 1..Len(Scanned) : Discarded(Scanned, k)) =>
        combined_text = None

\* C18: a string is a current frame only in the form "IDX:" + 3 digits + ":" +
\* text; any other string of digits + ":" + text is a legacy frame with those
\* digits as index and all that follows the colon as text, a tag inside the
\* text included: frames of distinct indices give their texts in index order.
FormatPrecedence ==
    (Combined /\ AllFrames(Scanned)
        /\ Cardinality(FrameIndices(Scanned)) = Len(Scanned)) =>
        combined_text = Some(AscendingJoin(LastTexts(Scanned), FrameIndices(Scanned)))

\* C19: a string "IDX:ddd:" + R is parsed to the index int(ddd) and the text
\* R, whatever R holds: colons, line breaks, further tags.
CurrentFormatWholeRemainder ==
    Combined =>
        /\ \A k \in 1..Len(Scanned) :
             IsCurrentFrame(Scanned[k]) =>
                ParseFrame(Scanned[k]) = Match(FrameIndex(Scanned[k]), FrameText(Scanned[k]))
        /\ (Len(Scanned) = 1 /\ IsCurrentFrame(Scanned[1])) =>
             combined_text = Some(FrameText(Scanned[1]))

\* a current frame whose text begins with a line break, scanned before the
\* frame of a lower index
CurrentFormatWitness ==
    /\ Combined
    /\ Len(Scanned) = 2
    /\ IsCurrentFrame(Scanned[1]) /\ IsCurrentFrame(Scanned[2])
    /\ FrameText(Scanned[1])[1] = "\n"
    /\ combined_text = Some(FrameText(Scanned[2]) \o FrameText(Scanned[1]))

BeginsWithTag(s) == StartsWith(s, <<"I", "D", "X", ":">>)

\* C20: when every raw string, one or more, begins with "IDX:" and none has
\* the strict current form, each string is split on its first two colons, the
\* strings whose second part is an integer are recovered, and the recovered
\* texts are returned in ascending order of index.
ManualRecoveryFallback ==
    (/\ Combined
     /\ \A k \in 1..Len(Scanned) : BeginsWithTag(Scanned[k]) /\ ~IsCurrentFrame(Scanned[k])
     /\ \E k \in 1..Len(Scanned) : ManualFrame(Scanned[k]).matched) =>
        LET manual == DictOf([k \in 1..Len(Scanned) |-> ManualFrame(Scanned[k])])
        IN  combined_text = Some(AscendingJoin(manual, DOMAIN manual))

\* the manual recovery applies and recovers at least one string
ManualRecovers(list) ==
    /\ \A k \in 1..Len(list) : BeginsWithTag(list[k])
    /\ \E k \in 1..Len(list) : ManualFrame(list[k]).matched

\* C21: when more than one string was scanned, none of them is a current or a
\* legacy frame and the manual recovery recovers nothing, combine_qr_code_data
\* returns None, and the decode returns None without writing a file.
UnparseableMultiScanFails ==
    (/\ pc \in {"combined", "write", "decoded"}
     /\ Len(Scanned) > 1
     /\ \A k \in 1..Len(Scanned) : ~IsFrame(Scanned[k])
     /\ ~ManualRecovers(Scanned)) =>
        /\ combined_text = None
        /\ pc = "decoded" => ~decoded.some /\ NothingUnder(OutputDir)

\* the body that encode_file_to_qr_array puts behind the header
BodyOf(content) == IF content.is_text THEN content.text ELSE b64encode(content.bytes)

\* C22: for every file name, one that holds a ':' included, and every body,
\* unwrapping the envelope "QRTEXT:<filename>:<body>" or
\* "QRFILE:<filename>:<body>" gives that file name and that body back.
UnwrapRecoversWrap ==
    (EncodeStarted /\ call.api = "encode_file_to_qr_array") =>
        LET u == Unwrap(Some(text))
        IN  /\ u.ok
            /\ u.is_text = call.content.is_text
            /\ u.file_name = call.file_name
            /\ u.file_content = BodyOf(call.content)

\* s without a leading "<digits>:", if it has one
WithoutNumericPrefix(s) == IF IsLegacyFrame(s) THEN SliceFrom(s, LeadingDigits(s) + 1) ELSE s
HasMarker(s) == StartsWith(s, QRTEXT) \/ StartsWith(s, QRFILE)

\* C23: when the reassembled string, after the removal of a possible numeric
\* index prefix, starts with neither "QRTEXT:" nor "QRFILE:", the decode
\* returns None for an unsupported type and creates neither an output file
\* nor the output directory.
UnsupportedKindFails ==
    (/\ pc \in {"write", "decoded"}
     /\ combined_text.some /\ combined_text.val # <<>>
     /\ ~HasMarker(WithoutNumericPrefix(combined_text.val))) =>
        /\ pc = "decoded"
        /\ unwrapped.why = "unsupported"
        /\ ~decoded.some
        /\ NothingUnder(OutputDir)
        /\ OutputDir \notin dirs

\* a reassembled payload with a numeric prefix and an unknown marker behind it
UnsupportedKindWitness ==
    /\ pc = "decoded"
    /\ combined_text.some
    /\ IsLegacyFrame(combined_text.val)
    /\ ~HasMarker(WithoutNumericPrefix(combined_text.val))
    /\ unwrapped.why = "unsupported"

\* C24: a reassembled string "<digits>:" + E, where E starts with "QRTEXT:" or
\* "QRFILE:", unwraps to the file name and content of E alone; a leading
\* "<digits>:" with no marker behind it is not removed.
ResidualPrefixStripped ==
    (/\ pc \in {"write", "decoded"}
     /\ combined_text.some
     /\ IsLegacyFrame(combined_text.val)) =>
        LET E == WithoutNumericPrefix(combined_text.val)
        IN  /\ HasMarker(E) =>
                 /\ StripIndexPrefix(combined_text.val) = E
                 /\ unwrapped = Unwrap(Some(E))
            /\ ~HasMarker(E) =>
                 /\ StripIndexPrefix(combined_text.val) = combined_text.val
                 /\ ~unwrapped.ok

\* "7:" before a text envelope: the file f is written with the content a
ResidualPrefixWitness ==
    /\ pc = "decoded"
    /\ combined_text = Some(<<"7", ":">> \o QRTEXT \o <<"f", ":", "a">>)
    /\ unwrapped.file_name = <<"f">>
    /\ decoded = Some(PathJoin(OutputDir, <<"f">>))
    /\ files[decoded.val] = TextFile(<<"a">>)

\* the chunk images of the call: the size of image idx, the largest width and
\* the largest height
ChunkImage(idx) == ImageSize(text_with_index(chunks[idx + 1], idx))
CellW == SetMax({ChunkImage(idx).width : idx \in 0..(Len(chunks) - 1)})
CellH == SetMax({ChunkImage(idx).height : idx \in 0..(Len(chunks) - 1)})

\* C25: the image of position idx is pasted at (margin + (idx % cols) *
\* (cellW + spacing), margin + (idx / cols) * (cellH + spacing)), the composite
\* measures cols * cellW + (cols - 1) * spacing + 2 * margin by rows * cellH +
\* (rows - 1) * spacing + 2 * margin, with cellW and cellH the largest image
\* width and height, and no cell of a position above n - 1 gets an image.
GridPlacement ==
    Composed =>
        LET n == Len(filenames)
            rows == files[OutputFile].grid.rows
            cols == files[OutputFile].grid.cols
        IN  /\ canvas.width = cols * CellW + (cols - 1) * QR_CODE_SPACING + 2 * QR_CODE_MARGIN
            /\ canvas.height = rows * CellH + (rows - 1) * QR_CODE_SPACING + 2 * QR_CODE_MARGIN
            /\ Len(canvas.boxes) <= n
            /\ \A idx \in 0..(n - 1) :
                 /\ idx + 1 \in DOMAIN canvas.boxes
                 /\ canvas.boxes[idx + 1].x =
                        QR_CODE_MARGIN + (idx % cols) * (CellW + QR_CODE_SPACING)
                 /\ canvas.boxes[idx + 1].y =
                        QR_CODE_MARGIN + (idx \div cols) * (CellH + QR_CODE_SPACING)

\* C26: for every index that generate_qr_code accepts and every chunk text,
\* the tagged string of the chunk image is parsed by combine_qr_code_data to
\* that index and that text; scanned by itself it gives the text back.
FrameRoundTrip ==
    /\ (pc = "done" /\ result.kind = "return") =>
         LET tagged == files[result.array_file.val].data
         IN  /\ ParseFrame(tagged) = Match(call.index, call.text)
             /\ combine_qr_code_data(<<tagged>>) = Some(call.text)
    /\ pc = "loop" =>
         \A k \in 1..Len(filenames) :
            ParseFrame(files[filenames[k]].data) = Match(k - 1, chunks[k])

\* C27: two create_qr_array calls that run at the same time do not interfere:
\* each returns, and its composite holds exactly its own chunk images, in
\* order.
ConcurrentEncodesIsolated ==
    pc = "threads" =>
        \A w \in Threads :
            workers[w].pc = "returned" =>
                /\ workers[w].kind = "return"
                /\ workers[w].cells =
                       [k \in 1..Len(workers[w].chunks) |->
                           text_with_index(workers[w].chunks[k], k - 1)]

\* path names a file that lies in dir itself
DirectlyUnder(path, dir) ==
    LET p == Location(path)
        d == Location(dir)
    IN  /\ p.abs = d.abs
        /\ Len(p.parts) = Len(d.parts) + 1
        /\ SubSeq(p.parts, 1, Len(d.parts)) = d.parts
        /\ p.parts[Len(p.parts)] # <<".", ".">>

\* C28: whatever file name the envelope holds, a name with path separators,
\* with ".." or an absolute one included, the file that
\* decode_qr_array_to_file writes lies directly under output_dir.
OutputStaysInOutputDir ==
    pc = "decoded" =>
        /\ decoded.some => DirectlyUnder(decoded.val, OutputDir)
        /\ \A f \in DOMAIN files : f = OutputFile \/ DirectlyUnder(f, OutputDir)

\* C29: the cleanup at the end of create_qr_array removes the chunk images of
\* the call and nothing else: every other file, one that was in the temp
\* directory before the call and the composite included, is there afterwards
\* with the same content.
CleanupFrameCondition ==
    [][(pc = "finally" /\ pc' = "returned") =>
          \A f \in DOMAIN files :
             (\A k \in 1..Len(filenames) : filenames[k] # f) =>
                (f \in DOMAIN files' /\ files'[f] = files[f])]_vars

\* two pasted images keep at least d pixels between them
Apart(a, b, d) ==
    \/ a.x + a.width + d <= b.x
    \/ b.x + b.width + d <= a.x
    \/ a.y + a.height + d <= b.y
    \/ b.y + b.height + d <= a.y

\* C30: every image is brought to the largest width and height; for every n,
\* rows and cols any two images placed in the composite are at least the
\* spacing apart, and each lies in the canvas at least the margin from every
\* edge.
GridCellsDisjoint ==
    Composed =>
        /\ LET normalized == NormalizedImages([k \in 1..Len(chunks) |-> ChunkImage(k - 1)])
           IN  \A k \in 1..Len(chunks) :
                  /\ normalized[k].width = CellW
                  /\ normalized[k].height = CellH
                  /\ normalized[k].x_offset >= 0
                  /\ normalized[k].x_offset + normalized[k].inner_width <= CellW
                  /\ normalized[k].y_offset >= 0
                  /\ normalized[k].y_offset + normalized[k].inner_height <= CellH
        /\ \A k \in DOMAIN canvas.boxes :
             /\ canvas.boxes[k].width = CellW
             /\ canvas.boxes[k].height = CellH
             /\ canvas.boxes[k].x >= QR_CODE_MARGIN
             /\ canvas.boxes[k].y >= QR_CODE_MARGIN
             /\ canvas.boxes[k].x + canvas.boxes[k].width <= canvas.width - QR_CODE_MARGIN
             /\ canvas.boxes[k].y + canvas.boxes[k].height <= canvas.height - QR_CODE_MARGIN
        /\ \A j, k \in DOMAIN canvas.boxes :
             j # k => Apart(canvas.boxes[j], canvas.boxes[k], QR_CODE_SPACING)

\* images of two sizes, three or more of them placed, in a grid of more than
\* one row with a cell left empty
GridCellsWitness ==
    /\ Composed
    /\ Len(canvas.boxes) >= 3
    /\ files[OutputFile].grid.rows >= 2
    /\ files[OutputFile].grid.rows * files[OutputFile].grid.cols > Len(canvas.boxes)
    /\ \E j, k \in 1..Len(chunks) : ChunkImage(j - 1).width < ChunkImage(k - 1).width



=============================================================================
